---------------------------- MODULE Spec2Model ----------------------------
(***************************************************************************)
(* Attention strategies of Informer_Paddle: FullAttention and              *)
(* ProbAttention (src/models/attn.py) with the masks of                    *)
(* src/utils/masking.py.                                                   *)
(*                                                                         *)
(* One attention object is constructed (Init) and one forward call is      *)
(* followed through its steps.  Tensors are those of one (batch, head)     *)
(* pair with feature width E = D = 1: Q is a sequence of L_Q numbers, K    *)
(* and V are sequences of L_K numbers.  Query and key positions are        *)
(* 0-based as in the code; a sequence s holds position i at s[i + 1].      *)
(* Fractions are exact: <<n, d>> with d > 0 in lowest terms, <<0, 0>> for  *)
(* NaN.  The exponential inside softmax is taken to base 2 so that the     *)
(* weights are exact fractions; it is positive, increasing and sends -inf  *)
(* to 0, as exp does.                                                      *)
(***************************************************************************)
EXTENDS Integers, Sequences, FiniteSets

\* Longest query / key sequence explored.
MaxLen == 3

\* attn.py:122  scale = self.scale or 1./sqrt(D), with scale=None and D = 1.
Scale == 1

\* Sampling factors c given to the constructor (attn.py:42 defaults to 5).
Factors == {-1, 0, 1, 5}

\* Entries of Q and K.
Vals == {0, 1}

Lens == 1..MaxLen

VARIABLES
  kind,              \* "Prob" | "Full": the class constructed
  factor,            \* self.factor
  mask_flag,         \* self.mask_flag
  output_attention,  \* self.output_attention
  pc,                \* position of the forward call
  Q, K, V,           \* queries, keys, values of the call
  U_part, u,         \* forward: sample_k and n_top
  Q_K_sample,        \* _prob_QK: sampled scores, one row per query
  M,                 \* _prob_QK: sparsity measurement per query
  index,             \* M_top: the selected query positions, in top-k's order
  scores_top,        \* Q_K * scale: one row per selected query
  context,           \* the context accumulator, one entry per row
  attn_mask,         \* the mask built by the call (<<>> when none)
  attn,              \* softmax rows
  result,            \* what the call returned: (context, weights or None)
  err                \* "" or the kind of the error the call raised

vars == <<kind, factor, mask_flag, output_attention, pc, Q, K, V, U_part, u,
          Q_K_sample, M, index, scores_top, context, attn_mask, attn,
          result, err>>

----------------------------------------------------------------------------
(* Arithmetic *)

Abs(x) == IF x < 0 THEN -x ELSE x

RECURSIVE GCD(_, _)
GCD(a, b) == IF b = 0 THEN a ELSE GCD(b, a % b)

NaN == <<0, 0>>

Rat(n, d) ==
  IF d = 0 THEN NaN
  ELSE LET g == GCD(Abs(n), Abs(d))
           s == IF d < 0 THEN -1 ELSE 1
       IN  <<(s * n) \div g, (s * d) \div g>>

RInt(x) == <<x, 1>>

RAdd(a, b) ==
  IF a = NaN \/ b = NaN THEN NaN
  ELSE Rat(a[1] * b[2] + b[1] * a[2], a[2] * b[2])

RSub(a, b) ==
  IF a = NaN \/ b = NaN THEN NaN
  ELSE Rat(a[1] * b[2] - b[1] * a[2], a[2] * b[2])

RMulInt(a, x) == IF a = NaN THEN NaN ELSE Rat(a[1] * x, a[2])

RGeq(a, b) == a[1] * b[2] >= b[1] * a[2]

RECURSIVE Pow2(_)
Pow2(n) == IF n <= 0 THEN 1 ELSE 2 * Pow2(n - 1)

RECURSIVE SumSeq(_)
SumSeq(s) == IF s = <<>> THEN 0 ELSE s[1] + SumSeq(Tail(s))

RECURSIVE RSumSeq(_)
RSumSeq(s) == IF s = <<>> THEN RInt(0) ELSE RAdd(s[1], RSumSeq(Tail(s)))

MaxSeq(s) == CHOOSE x \in {s[i] : i \in DOMAIN s} :
               \A i \in DOMAIN s : s[i] <= x

MinSet(S) == CHOOSE x \in S : \A y \in S : x <= y

\* floor(e^k) for k = 0..4: for an integer n, ln(n) <= k iff n <= floor(e^k).
FloorExp == <<1, 2, 7, 20, 54>>

\* np.ceil(np.log(n)).astype('int').item()
CeilLog(n) == CHOOSE k \in 0..4 :
                /\ n <= FloorExp[k + 1]
                /\ k > 0 => n > FloorExp[k]


----------------------------------------------------------------------------
(* Tensor operations on one (batch, head) slice *)

\* -np.inf and finite scores, as entries of a masked score row.
NegInf == [inf |-> TRUE, v |-> 0]

Fin(x) == [inf |-> FALSE, v |-> x]

\* paddle.where(mask, -np.inf * ones_like(scores), scores)
MaskedFill(scores, mask) ==
  [p \in DOMAIN scores |->
     [j \in DOMAIN scores[p] |->
        IF mask[p][j] THEN NegInf ELSE Fin(scores[p][j])]]

\* Scores that no mask is applied to.
Unmasked(scores) ==
  [p \in DOMAIN scores |-> [j \in DOMAIN scores[p] |-> Fin(scores[p][j])]]

\* F.softmax(row, axis=-1) of one row: exp(-inf) = 0, and 0/0 = NaN when
\* every entry is -inf.
SoftmaxRow(r) ==
  LET fin == {j \in DOMAIN r : ~r[j].inf}
  IN  IF fin = {} THEN [j \in DOMAIN r |-> NaN]
      ELSE LET m   == MinSet({r[j].v : j \in fin})
               num == [j \in DOMAIN r |->
                         IF r[j].inf THEN 0 ELSE Pow2(r[j].v - m)]
               den == SumSeq(num)
           IN  [j \in DOMAIN r |-> Rat(num[j], den)]

Softmax(scores) == [p \in DOMAIN scores |-> SoftmaxRow(scores[p])]

\* paddle.matmul(attn, V): row p is sum_j attn[p][j] * V[j].
MatMulV(A, vals) ==
  [p \in DOMAIN A |->
     RSumSeq([j \in DOMAIN vals |-> RMulInt(A[p][j], vals[j])])]

----------------------------------------------------------------------------
(* src/utils/masking.py *)

\* The triangle taken with its diagonal (diagonal=0): a query is denied the
\* key at its own position.
TriangularMaskWithDiagonal(L) ==
  [l \in 1..L |-> [s \in 1..L |-> s >= l]]

\* triu(ones([L, L]), diagonal=1): key s is masked for query l iff s > l.
TriangularCausalMask(L) ==
  [l \in 1..L |-> [s \in 1..L |-> s > l]]

\* The triangular mask cut to the first rows instead of gathered at index.
ProbMaskUngathered(L, idx, S) ==
  [p \in DOMAIN idx |-> [s \in 1..S |-> s > p]]

\* ones([L, S]).triu(1), row-gathered at index.
ProbMask(L, idx, S) ==
  LET mask_ == [l \in 1..L |-> [s \in 1..S |-> s > l]]
  IN  [p \in DOMAIN idx |-> mask_[idx[p] + 1]]

----------------------------------------------------------------------------
(* ProbAttention *)

\* forward: U_part = factor * ceil(ln(L_K)), clipped to L_K.
SampleK(c, L_K) ==
  LET U == c * CeilLog(L_K) IN IF U < L_K THEN U ELSE L_K

\* n_top with the logarithm rounded down instead of up (1 is the only
\* length whose logarithm is an integer).
NTopRoundedDown(c, L_Q) ==
  LET n == c * (IF L_Q = 1 THEN 0 ELSE CeilLog(L_Q) - 1)
  IN  IF n < L_Q THEN n ELSE L_Q

\* forward: u = factor * ceil(ln(L_Q)), clipped to L_Q.
NTop(c, L_Q) ==
  LET n == c * CeilLog(L_Q) IN IF n < L_Q THEN n ELSE L_Q

\* _prob_QK: the scores of one query against the keys its row of
\* index_sample drew.
SampleRowScores(q, keys, idx) ==
  [s \in DOMAIN idx |-> q * keys[idx[s] + 1]]

\* _prob_QK: M = Q_K_sample.max(-1)[0] - div(Q_K_sample.sum(-1), L_K)
Measure(sample, L_K) ==
  [i \in DOMAIN sample |->
     RSub(RInt(MaxSeq(sample[i])), Rat(SumSeq(sample[i]), L_K))]

\* _prob_QK: M.topk(n_top, sorted=False)[1].  Every list of n_top distinct
\* positions none of whose measurements is below an unlisted one, in any
\* order.
TopK(meas, k) ==
  LET L == Len(meas)
  IN  {idx \in [1..k -> 0..(L - 1)] :
         /\ \A a, b \in 1..k : a # b => idx[a] # idx[b]
         /\ \A a \in 1..k : \A t \in 0..(L - 1) :
              (\A b \in 1..k : idx[b] # t) => RGeq(meas[idx[a] + 1], meas[t + 1])}

\* The first n_top queries taken instead of the queries at index.
ReducedQKByPosition(queries, keys, idx) ==
  [p \in DOMAIN idx |-> [j \in DOMAIN keys |-> queries[p] * keys[j]]]

\* _prob_QK: Q_reduce = Q[.., M_top, :];  Q_K = matmul(Q_reduce, K^T)
ReducedQK(queries, keys, idx) ==
  [p \in DOMAIN idx |->
     [j \in DOMAIN keys |-> queries[idx[p] + 1] * keys[j]]]

\* forward: scores_top * scale
Scaled(scores) ==
  [p \in DOMAIN scores |-> [j \in DOMAIN scores[p] |-> scores[p][j] * Scale]]

\* _get_initial_context
get_initial_context(vals, L_Q, flag) ==
  IF ~flag
    THEN [i \in 1..L_Q |-> Rat(SumSeq(vals), Len(vals))]
    ELSE [i \in 1..Len(vals) |-> RInt(SumSeq(SubSeq(vals, 1, i)))]

\* The rows written to the first positions instead of the positions in index.
ScatterByPosition(target, idx, rows) ==
  [r \in DOMAIN target |-> IF r \in DOMAIN rows THEN rows[r] ELSE target[r]]

\* target[.., index, :] = rows
RECURSIVE ScatterRows(_, _, _)
ScatterRows(target, idx, rows) ==
  IF idx = <<>> THEN target
  ELSE ScatterRows([target EXCEPT ![idx[1] + 1] = rows[1]],
                   Tail(idx), Tail(rows))

\* _update_context: the mask applied to the selected scores.
UpdateMask(L_Q, idx, S, flag) ==
  IF flag THEN ProbMask(L_Q, idx, S) ELSE <<>>

\* _update_context: attn = softmax(masked scores)
UpdateAttn(scores, mask, flag) ==
  Softmax(IF flag THEN MaskedFill(scores, mask) ELSE Unmasked(scores))

\* _update_context: attns = ones([L_V, L_V]) / L_V
UniformWeights(L_V) ==
  [r \in 1..L_V |-> [j \in 1..L_V |-> Rat(1, L_V)]]

----------------------------------------------------------------------------
(* FullAttention *)

\* where(mask, -inf, scores) broadcasts the [L, L] mask against the [L, S]
\* scores: the shapes agree when L = S, or when one of the two is 1.
FullShapeOK(L, S, flag) == ~flag \/ L = S \/ L = 1 \/ S = 1

\* Number of key columns of the scores after the mask is applied.
FullWidth(L, S, flag) == IF flag /\ S = 1 THEN L ELSE S

\* FullAttention.forward: scale * where(mask, -inf, einsum(Q, K))
FullScores(queries, keys, flag) ==
  LET L == Len(queries)
      S == Len(keys)
      mask == TriangularCausalMask(L)
  IN  [l \in 1..L |->
        [s \in 1..FullWidth(L, S, flag) |->
           IF flag /\ mask[l][IF L = 1 THEN 1 ELSE s]
             THEN NegInf
             ELSE Fin(Scale * (queries[l] * keys[IF S = 1 THEN 1 ELSE s]))]]

\* FullAttention.forward: A = dropout(softmax(scale * scores)); dropout is
\* the identity (rate 0, or evaluation mode).
FullA(queries, keys, flag) == Softmax(FullScores(queries, keys, flag))

\* FullAttention.forward: V = einsum("bhls,bshd->blhd", A, values)
FullContext(queries, keys, vals, flag) ==
  LET A == FullA(queries, keys, flag)
  IN  [l \in DOMAIN A |->
        RSumSeq([s \in DOMAIN A[l] |->
                   RMulInt(A[l][s], vals[IF Len(vals) = 1 THEN 1 ELSE s])])]

----------------------------------------------------------------------------
(* The state machine *)

\* Value tensors: a ramp (all entries distinct) and a constant vector.
VChoices(L) == {[j \in 1..L |-> j], [j \in 1..L |-> 1]}

NoResult == [returned |-> FALSE, context |-> <<>>,
             has_weights |-> FALSE, weights |-> <<>>]

Returned(ctx, A, flag) ==
  [returned |-> TRUE, context |-> ctx,
   has_weights |-> flag, weights |-> IF flag THEN A ELSE <<>>]

\* __init__ of either class: configuration is stored unchecked.
Init ==
  /\ kind \in {"Prob", "Full"}
  /\ factor \in (IF kind = "Prob" THEN Factors ELSE {5})
  /\ mask_flag \in BOOLEAN
  /\ output_attention \in BOOLEAN
  /\ pc = "constructed"
  /\ Q = <<>> /\ K = <<>> /\ V = <<>>
  /\ U_part = 0 /\ u = 0
  /\ Q_K_sample = <<>> /\ M = <<>> /\ index = <<>> /\ scores_top = <<>>
  /\ context = <<>> /\ attn_mask = <<>> /\ attn = <<>>
  /\ result = NoResult
  /\ err = ""

Raise(e) ==
  /\ pc' = "error"
  /\ err' = e

\* ProbAttention.forward up to the call of _prob_QK (attn.py:105-119).
ProbForward ==
  /\ kind = "Prob" /\ pc = "constructed"
  /\ \E lq \in Lens, lk \in Lens :
       \E q \in [1..lq -> Vals], k \in [1..lk -> Vals], v \in VChoices(lk) :
          /\ Q' = q /\ K' = k /\ V' = v
          /\ U_part' = SampleK(factor, lk)
          /\ u' = NTop(factor, lq)
  /\ pc' = "sample"
  /\ UNCHANGED <<kind, factor, mask_flag, output_attention, Q_K_sample, M,
                 index, scores_top, context, attn_mask, attn,
                 result, err>>

\* _prob_QK (attn.py:56-61): one row of index_sample is drawn and the query
\* of that row is scored against the keys drawn.  randint rejects a negative
\* shape.
SampleRow ==
  /\ pc = "sample" /\ Len(Q_K_sample) < Len(Q)
  /\ \/ /\ U_part >= 0
        /\ \E idx \in [1..U_part -> 0..(Len(K) - 1)] :
             Q_K_sample' = Append(Q_K_sample,
                SampleRowScores(Q[Len(Q_K_sample) + 1], K, idx))
        /\ UNCHANGED <<pc, err>>
     \/ /\ U_part < 0
        /\ Raise("BackendError")
        /\ UNCHANGED Q_K_sample
  /\ UNCHANGED <<kind, factor, mask_flag, output_attention, Q, K, V, U_part,
                 u, M, index, scores_top, context, attn_mask, attn,
                 result>>

\* _prob_QK (attn.py:64): the measurement.  max over an empty sample axis
\* has no value and is an error of the backend.
ComputeM ==
  /\ pc = "sample" /\ Len(Q_K_sample) = Len(Q)
  /\ \/ /\ U_part > 0
        /\ M' = Measure(Q_K_sample, Len(K))
        /\ pc' = "topk"
        /\ UNCHANGED err
     \/ /\ U_part = 0
        /\ Raise("BackendError")
        /\ UNCHANGED M
  /\ UNCHANGED <<kind, factor, mask_flag, output_attention, Q, K, V, U_part,
                 u, Q_K_sample, index, scores_top, context, attn_mask, attn, result>>

\* _prob_QK (attn.py:65-73): top-k, the reduced scores, return; the locals
\* Q_K_sample and M end with the call.  A negative k is an error; k = 0 is
\* an error in some backends and an empty selection in others.
TopKStep ==
  /\ pc = "topk"
  /\ \/ /\ u >= 0
        /\ \E idx \in TopK(M, u) :
             /\ index' = idx
             /\ scores_top' = ReducedQK(Q, K, idx)
        /\ pc' = "returned"
        /\ UNCHANGED err
     \/ /\ u <= 0
        /\ Raise("BackendError")
        /\ UNCHANGED <<index, scores_top>>
  /\ Q_K_sample' = <<>> /\ M' = <<>>
  /\ UNCHANGED <<kind, factor, mask_flag, output_attention, Q, K, V, U_part,
                 u, context, attn_mask, attn, result>>

\* forward (attn.py:119-126): the scores are scaled; _get_initial_context
\* asserts L_Q == L_V under mask_flag.
GetInitialContext ==
  /\ pc = "returned"
  /\ scores_top' = Scaled(scores_top)
  /\ \/ /\ mask_flag => Len(Q) = Len(V)
        /\ context' = get_initial_context(V, Len(Q), mask_flag)
        /\ pc' = "update"
        /\ UNCHANGED err
     \/ /\ mask_flag /\ Len(Q) # Len(V)
        /\ Raise("AssertionError")
        /\ UNCHANGED context
  /\ UNCHANGED <<kind, factor, mask_flag, output_attention, Q, K, V, U_part,
                 u, Q_K_sample, M, index, attn_mask, attn, result>>

\* _update_context and the return of forward (attn.py:86-103, 128-130).
\* The weights tensor has L_V rows: a selected position beyond it is an
\* index error.
UpdateContext ==
  /\ pc = "update"
  /\ LET mask == UpdateMask(Len(Q), index, Len(K), mask_flag)
         A    == UpdateAttn(scores_top, mask, mask_flag)
         ctx  == ScatterRows(context, index, MatMulV(A, V))
     IN  /\ attn_mask' = mask
         /\ attn' = A
         /\ context' = ctx
         /\ \/ /\ output_attention
               /\ \E p \in DOMAIN index : index[p] >= Len(V)
               /\ Raise("IndexError")
               /\ UNCHANGED result
            \/ /\ output_attention
               /\ \A p \in DOMAIN index : index[p] < Len(V)
               /\ result' = Returned(ctx,
                               ScatterRows(UniformWeights(Len(V)), index, A),
                               TRUE)
               /\ pc' = "done"
               /\ UNCHANGED err
            \/ /\ ~output_attention
               /\ result' = Returned(ctx, <<>>, FALSE)
               /\ pc' = "done"
               /\ UNCHANGED err
  /\ UNCHANGED <<kind, factor, mask_flag, output_attention, Q, K, V, U_part,
                 u, Q_K_sample, M, index, scores_top>>

\* FullAttention.forward (attn.py:20-39).  When the mask has widened the
\* scores beyond the S rows of the values, the final contraction either
\* fails or broadcasts the single value row.
FullForward ==
  /\ kind = "Full" /\ pc = "constructed"
  /\ \E lq \in Lens, lk \in Lens :
       \E q \in [1..lq -> Vals], k \in [1..lk -> Vals], v \in VChoices(lk) :
          /\ Q' = q /\ K' = k /\ V' = v
          /\ \/ /\ ~FullShapeOK(lq, lk, mask_flag)
                /\ Raise("ShapeError")
                /\ UNCHANGED <<attn_mask, attn, context, result>>
             \/ /\ FullShapeOK(lq, lk, mask_flag)
                /\ FullWidth(lq, lk, mask_flag) # lk
                /\ attn_mask' = TriangularCausalMask(lq)
                /\ Raise("ShapeError")
                /\ UNCHANGED <<attn, context, result>>
             \/ /\ FullShapeOK(lq, lk, mask_flag)
                /\ attn_mask' = IF mask_flag THEN TriangularCausalMask(lq)
                                ELSE <<>>
                /\ attn' = FullA(q, k, mask_flag)
                /\ context' = FullContext(q, k, v, mask_flag)
                /\ result' = Returned(FullContext(q, k, v, mask_flag),
                                      FullA(q, k, mask_flag), output_attention)
                /\ pc' = "done"
                /\ UNCHANGED err
  /\ UNCHANGED <<kind, factor, mask_flag, output_attention, U_part, u,
                 Q_K_sample, M, index, scores_top>>

Next ==
  \/ ProbForward
  \/ SampleRow
  \/ ComputeM
  \/ TopKStep
  \/ GetInitialContext
  \/ UpdateContext
  \/ FullForward

Spec == Init /\ [][Next]_vars

----------------------------------------------------------------------------
(* Properties *)

Min(a, b) == IF a <= b THEN a ELSE b

L_Q == Len(Q)

L_K == Len(K)

Selected(r) == \E p \in DOMAIN index : index[p] = r

\* _prob_QK has returned to ProbAttention.forward.
ProbQKReturned ==
  /\ kind = "Prob"
  /\ \/ pc \in {"returned", "update", "done"}
     \/ pc = "error" /\ err \in {"AssertionError", "IndexError"}

ProbDone == kind = "Prob" /\ pc = "done"

\* A call whose factor, sample size and selection size are all positive.
PositiveSizes == factor >= 1 /\ U_part >= 1 /\ u >= 1

\* C1: with factor c >= 1, the Selection Index _prob_QK returns has exactly
\* n_top = min(c * ceil(ln(L_Q)), L_Q) entries, pairwise distinct, each in
\* [0, L_Q).
C1_SelectionIndex ==
  (ProbQKReturned /\ factor >= 1) =>
     /\ u = Min(factor * CeilLog(L_Q), L_Q)
     /\ Len(index) = Min(factor * CeilLog(L_Q), L_Q)
     /\ \A a, b \in DOMAIN index : a # b => index[a] # index[b]
     /\ \A a \in DOMAIN index : 0 <= index[a] /\ index[a] < L_Q

\* A call that selected 2 of 3 queries.
C1_Witness ==
  ProbQKReturned /\ factor = 1 /\ L_Q = 3 /\ Len(index) = 2

C3_DegeneratesToFullAttention ==
  (ProbDone /\ mask_flag /\ Len(index) = L_Q) =>
     result.context = FullContext(Q, K, V, TRUE)

\* All three queries selected, listed out of order, with scores that the
\* mask makes a difference to.
C3_Witness ==
  /\ ProbDone /\ mask_flag /\ L_Q = 3
  /\ index = <<2, 0, 1>>
  /\ FullContext(Q, K, V, TRUE) # FullContext(Q, K, V, FALSE)

\* C9: under mask_flag, row p of the ProbMask is the causal row of the query
\* at Selection Index p (key j masked iff j > index[p]); the softmax row
\* scattered to that query gives weight 0 to every key j > index[p] and a
\* positive weight to every key j <= index[p].
C9_ProbMaskRows ==
  (ProbDone /\ mask_flag) =>
     /\ Len(attn_mask) = Len(index)
     /\ Len(attn) = Len(index)
     /\ \A p \in DOMAIN index : \A j \in 0..(L_K - 1) :
          /\ attn_mask[p][j + 1] <=> (j > index[p])
          /\ (j > index[p]) => attn[p][j + 1] = <<0, 1>>
          /\ (j <= index[p]) => attn[p][j + 1][1] > 0
     /\ output_attention =>
          \A p \in DOMAIN index : result.weights[index[p] + 1] = attn[p]

\* A causal call whose selection is listed out of order.
C9_Witness ==
  /\ ProbDone /\ mask_flag /\ output_attention
  /\ Len(index) = 2 /\ index[1] > index[2]

\* C10: under the causal masks the code builds (TriangularCausalMask in
\* FullAttention, ProbMask in ProbAttention) the key at a query's own
\* position is unmasked, so no softmax row is all -inf (no NaN weight).
C10_SelfPositionUnmasked ==
  /\ (kind = "Full" /\ mask_flag /\ pc # "constructed") =>
        /\ \A l \in DOMAIN attn_mask : ~attn_mask[l][l]
        /\ \A l \in DOMAIN attn : \A s \in DOMAIN attn[l] : attn[l][s] # NaN
  /\ (ProbDone /\ mask_flag) =>
        /\ \A p \in DOMAIN index : ~attn_mask[p][index[p] + 1]
        /\ \A p \in DOMAIN attn : \A j \in DOMAIN attn[p] : attn[p][j] # NaN

\* A causal FullAttention call over three positions has returned.
C10_Witness ==
  /\ kind = "Full" /\ mask_flag /\ pc = "done"
  /\ L_Q = 3 /\ Len(attn_mask) = 3 /\ attn_mask[1][2]

\* C4: when attention weights are requested the call completes and the
\* weights have one row per query position in [0, L_Q) and L_K columns:
\* the softmax row at a selected position, 1/L_K in every column elsewhere;
\* when not requested the second result is None.  Stated for calls with
\* positive sizes.
C4_WeightsShape ==
  /\ (kind = "Prob" /\ output_attention) => err # "IndexError"
  /\ (ProbDone /\ PositiveSizes) =>
        IF output_attention
          THEN /\ result.has_weights
               /\ Len(result.weights) = L_Q
               /\ \A r \in DOMAIN result.weights :
                    /\ Len(result.weights[r]) = L_K
                    /\ \A p \in DOMAIN index :
                         index[p] = r - 1 => result.weights[r] = attn[p]
                    /\ ~Selected(r - 1) =>
                         \A j \in 1..L_K : result.weights[r][j] = Rat(1, L_K)
          ELSE ~result.has_weights

\* C5: with mask_flag and L_Q # L_K the call fails with the shape
\* precondition and returns nothing; without mask_flag the same lengths are
\* accepted.  Stated for calls with positive sizes.
C5_ShapePrecondition ==
  (kind = "Prob" /\ PositiveSizes /\ pc \in {"done", "error"} /\ L_Q # L_K) =>
     IF mask_flag
       THEN pc = "error" /\ err = "AssertionError" /\ ~result.returned
       ELSE pc = "done"

\* C6: a factor <= 0, or an n_top or u_part that is 0 or negative, is
\* rejected with a configuration error; the call never goes on to sample,
\* select or return.
C6_ConfigurationRejected ==
  (kind = "Prob" /\ pc # "constructed"
     /\ (factor <= 0 \/ U_part <= 0 \/ u <= 0)) =>
        pc = "error" /\ err = "ConfigurationError"

\* C7: with L_K = 1 and factor >= 1 the sample size passed to _prob_QK is 1:
\* every query is scored against one sampled key and its measurement is 0.
C7_SingleKeySample ==
  (kind = "Prob" /\ factor >= 1 /\ pc # "constructed" /\ L_K = 1) =>
     /\ U_part = 1
     /\ pc # "error"
     /\ \A i \in DOMAIN Q_K_sample : Len(Q_K_sample[i]) = 1
     /\ \A i \in DOMAIN M : M[i] = <<0, 1>>

\* C8: the measurement of each query is the maximum of its u_part sampled
\* scores minus their mean (their sum divided by u_part), also when
\* u_part < L_K.  Stated for calls with positive sizes.
C8_MeasureIsMaxMinusMean ==
  (kind = "Prob" /\ PositiveSizes /\ pc = "topk") =>
     \A i \in DOMAIN M :
        M[i] = RSub(RInt(MaxSeq(Q_K_sample[i])),
                    Rat(SumSeq(Q_K_sample[i]), U_part))
============================================================================
